---- MODULE Spec2Model ----
(***************************************************************************)
(* A model of tagberry's EPCNumber (src/tagberry/epc/EPCNumber.py): one    *)
(* instance of a concrete numeric-serial scheme, its field dictionary, its *)
(* cached bit string, and the public operations of the base class.         *)
(*                                                                         *)
(* Python strings are sequences of one-character strings, so that case     *)
(* folding, hex()/bin()/int() and slicing are computed, not assumed.       *)
(* The operations the base class leaves to the concrete scheme             *)
(* (loadFields, _updateBitString, validate_serial_number, the renderings,  *)
(* decodeFromBinary) and the Field/FieldDictionary classes are modelled    *)
(* from the specification; every such definition says so.                  *)
(***************************************************************************)
EXTENDS Integers, Sequences, FiniteSets, TLC

VARIABLES
    fieldDictionary,  \* self._fieldDictionary: field name -> value ({} before loadFields)
    bits,             \* self._bits: the cached bit string, or None
    last              \* the most recent call: its name, arguments and outcome

vars == <<fieldDictionary, bits, last>>

-----------------------------------------------------------------------------
(* Bounds of the model scheme and of the inputs.                           *)

HeaderBits == 2
CompanyPrefixBits == 1
SerialBits == 3
MaxCount == 2

(* The header value a concrete scheme loads (SGTIN-96 loads 0x30, which    *)
(* like this one has leading zero bits).                                   *)
HeaderValue == 1

-----------------------------------------------------------------------------
(* Python values.                                                          *)

None == <<"None">>

UpperLetters ==
    <<"A","B","C","D","E","F","G","H","I","J","K","L","M",
      "N","O","P","Q","R","S","T","U","V","W","X","Y","Z">>

LowerLetters ==
    <<"a","b","c","d","e","f","g","h","i","j","k","l","m",
      "n","o","p","q","r","s","t","u","v","w","x","y","z">>

\* the letters' case mappings; every other character maps to itself
UpperToLower == [c \in {UpperLetters[i] : i \in 1..26} |->
                    LowerLetters[CHOOSE i \in 1..26 : UpperLetters[i] = c]]
LowerToUpper == [c \in {LowerLetters[i] : i \in 1..26} |->
                    UpperLetters[CHOOSE i \in 1..26 : LowerLetters[i] = c]]

LowerChar(c) == IF c \in DOMAIN UpperToLower THEN UpperToLower[c] ELSE c

UpperChar(c) == IF c \in DOMAIN LowerToUpper THEN LowerToUpper[c] ELSE c

\* str.lower() and str.upper()
Lower(s) == [i \in 1..Len(s) |-> LowerChar(s[i])]
Upper(s) == [i \in 1..Len(s) |-> UpperChar(s[i])]

HexChars == <<"0","1","2","3","4","5","6","7","8","9","a","b","c","d","e","f">>

RECURSIVE Pow2(_)
Pow2(n) == IF n <= 0 THEN 1 ELSE 2 * Pow2(n - 1)

\* the digits of n >= 0 in the given base, most significant first, no padding
RECURSIVE Digits(_, _)
Digits(n, base) ==
    IF n < base THEN <<HexChars[n + 1]>>
    ELSE Digits(n \div base, base) \o <<HexChars[(n % base) + 1]>>

\* bin(n) and hex(n) for n >= 0
bin(n) == <<"0", "b">> \o Digits(n, 2)
hex(n) == <<"0", "x">> \o Digits(n, 16)

DigitValue(c) == (CHOOSE i \in 1..16 : HexChars[i] = LowerChar(c)) - 1

\* int(s, base) for a string of digits of that base
RECURSIVE int(_, _)
int(s, base) ==
    IF Len(s) = 0 THEN 0
    ELSE base * int(SubSeq(s, 1, Len(s) - 1), base) + DigitValue(s[Len(s)])

\* str(n) for an integer, as one token
str(n) == ToString(n)

RECURSIVE Concat(_)
Concat(ss) == IF Len(ss) = 0 THEN <<>> ELSE Head(ss) \o Concat(Tail(ss))

-----------------------------------------------------------------------------
(* The concrete scheme: its tag and its field layout.                      *)

\* self._encoding_type as the concrete scheme sets it
encoding_type == <<"SGTIN96">>

Header == <<"H","e","a","d","e","r">>
companyPrefix == <<"c","o","m","p","a","n","y","P","r","e","f","i","x">>
SerialNumber == <<"S","e","r","i","a","l","N","u","m","b","e","r">>

\* the layout order of the field dictionary, most significant field first
Layout == <<Header, companyPrefix, SerialNumber>>

FieldNames == {Layout[i] : i \in 1..Len(Layout)}

bitWidth(name) ==
    IF name = Header THEN HeaderBits
    ELSE IF name = companyPrefix THEN CompanyPrefixBits
    ELSE SerialBits

RECURSIVE SumWidths(_)
SumWidths(names) ==
    IF Len(names) = 0 THEN 0 ELSE bitWidth(Head(names)) + SumWidths(Tail(names))

\* the scheme's fixed total width
TotalBits == SumWidths(Layout)

\* FieldDictionary(): no field yet
EmptyDictionary == [n \in {} |-> 0]

Loaded(fd) == DOMAIN fd = FieldNames

\* the dictionary loadFields builds
LoadedDictionary == [n \in FieldNames |-> IF n = Header THEN HeaderValue ELSE 0]

\* Field.set's rule: the value fits the field's width
FieldAccepts(name, val) == 0 <= val /\ val < Pow2(bitWidth(name))

\* one field's bits: its value in binary, zero-padded on the left to its width
FieldBits(val, width) ==
    LET d == IF val < 0 THEN <<"-">> \o Digits(0 - val, 2) ELSE Digits(val, 2)
    IN  [i \in 1..(width - Len(d)) |-> "0"] \o d

\* the bit string of a loaded dictionary: the fields' bits in layout order
Synthesize(fd) == Concat([i \in 1..Len(Layout) |-> FieldBits(fd[Layout[i]], bitWidth(Layout[i]))])

IsBitString(b) ==
    /\ Len(b) = TotalBits
    /\ \A i \in 1..Len(b) : b[i] \in {"0", "1"}

\* the first bit (1-based) of the i-th field of the layout
RECURSIVE Offset(_)
Offset(i) == IF i <= 1 THEN 1 ELSE Offset(i - 1) + bitWidth(Layout[i - 1])

\* the dictionary a canonical bit string splits into
Split(b) ==
    [n \in FieldNames |->
        LET i == CHOOSE j \in 1..Len(Layout) : Layout[j] = n
        IN  int(SubSeq(b, Offset(i), Offset(i) + bitWidth(n) - 1), 2)]

\* _updateBitString after a field was written: the new cache, or a fatal
\* length mismatch that leaves the cache as it was
updateBitString(fd, b) ==
    LET s == Synthesize(fd)
    IN  IF Len(s) = TotalBits
        THEN [fd |-> fd, bits |-> s, err |-> "none"]
        ELSE [fd |-> fd, bits |-> b, err |-> "BitStringLengthError"]

\* validate_serial_number: the SerialNumber field when the value fits it
validate_serial_number(fd, serial_number) ==
    IF SerialNumber \notin DOMAIN fd
    THEN [err |-> "UnknownFieldError", field |-> SerialNumber]
    ELSE IF 0 <= serial_number /\ serial_number < Pow2(SerialBits)
    THEN [err |-> "none", field |-> SerialNumber]
    ELSE [err |-> "InvalidSerialNumber", field |-> SerialNumber]

\* setFieldValue that forgets the resynthesis after the write
setFieldValue_NoResynthesis(fd, b, fieldName, val) ==
    IF Lower(fieldName) = <<"s","e","r","i","a","l","n","u","m","b","e","r">>
    THEN LET v == validate_serial_number(fd, val)
         IN  IF v.err # "none"
             THEN [fd |-> fd, bits |-> b, err |-> v.err]
             ELSE [fd |-> [fd EXCEPT ![v.field] = val], bits |-> b, err |-> "none"]
    ELSE IF fieldName \notin DOMAIN fd
    THEN [fd |-> fd, bits |-> b, err |-> "UnknownFieldError"]
    ELSE IF ~FieldAccepts(fieldName, val)
    THEN [fd |-> fd, bits |-> b, err |-> "FieldValueException"]
    ELSE [fd |-> [fd EXCEPT ![fieldName] = val], bits |-> b, err |-> "none"]

\* setFieldValue that stores the value before the field's rule rejects it
setFieldValue_WriteThenValidate(fd, b, fieldName, val) ==
    IF Lower(fieldName) = <<"s","e","r","i","a","l","n","u","m","b","e","r">>
    THEN LET v == validate_serial_number(fd, val)
         IN  IF v.err # "none"
             THEN [fd |-> fd, bits |-> b, err |-> v.err]
             ELSE updateBitString([fd EXCEPT ![v.field] = val], b)
    ELSE IF fieldName \notin DOMAIN fd
    THEN [fd |-> fd, bits |-> b, err |-> "UnknownFieldError"]
    ELSE IF ~FieldAccepts(fieldName, val)
    THEN [fd |-> [fd EXCEPT ![fieldName] = val], bits |-> b, err |-> "FieldValueException"]
    ELSE updateBitString([fd EXCEPT ![fieldName] = val], b)

\* setFieldValue on dictionary fd and cache b: the dictionary and cache it
\* leaves, and how it ended
setFieldValue(fd, b, fieldName, val) ==
    IF Lower(fieldName) = <<"s","e","r","i","a","l","n","u","m","b","e","r">>
    THEN LET v == validate_serial_number(fd, val)
         IN  IF v.err # "none"
             THEN [fd |-> fd, bits |-> b, err |-> v.err]
             ELSE updateBitString([fd EXCEPT ![v.field] = val], b)
    ELSE IF fieldName \notin DOMAIN fd
    THEN [fd |-> fd, bits |-> b, err |-> "UnknownFieldError"]
    ELSE IF ~FieldAccepts(fieldName, val)
    THEN [fd |-> fd, bits |-> b, err |-> "FieldValueException"]
    ELSE updateBitString([fd EXCEPT ![fieldName] = val], b)

\* self._fieldDictionary[fieldName]: the field, or the lookup's failure
lookup(fd, fieldName) ==
    IF fieldName \in DOMAIN fd
    THEN [err |-> "none", value |-> fd[fieldName]]
    ELSE [err |-> "UnknownFieldError", value |-> 0]

getField(fd, fieldName) == lookup(fd, fieldName)

getFieldValue(fd, fieldName) == lookup(fd, fieldName)

\* increment that adds the default count of 1 whatever count it is given
increment_IgnoresCount(fd, b, count) ==
    LET g == lookup(fd, SerialNumber)
        cur == g.value + 1
        r == setFieldValue(fd, b, SerialNumber, cur)
    IN  IF g.err # "none"
        THEN [fd |-> fd, bits |-> b, err |-> g.err, msg |-> "", ret |-> 0]
        ELSE IF r.err # "none"
        THEN [fd |-> r.fd, bits |-> r.bits, err |-> r.err, msg |-> "", ret |-> 0]
        ELSE [fd |-> r.fd, bits |-> r.bits, err |-> "none", msg |-> "", ret |-> cur]

\* increment that assigns the field itself instead of calling setFieldValue
increment_UnvalidatedWrite(fd, b, count) ==
    LET g == lookup(fd, SerialNumber)
        cur == g.value + count
        r == updateBitString([fd EXCEPT ![SerialNumber] = cur], b)
    IN  IF g.err # "none"
        THEN [fd |-> fd, bits |-> b, err |-> g.err, msg |-> "", ret |-> 0]
        ELSE IF r.err # "none"
        THEN [fd |-> r.fd, bits |-> r.bits, err |-> r.err, msg |-> "", ret |-> 0]
        ELSE [fd |-> r.fd, bits |-> r.bits, err |-> "none", msg |-> "", ret |-> cur]

\* decrement without its own floor check, leaving negative results to the setter
decrement_NoFloorCheck(fd, b, count) ==
    LET g == lookup(fd, SerialNumber)
        cur == g.value - count
        r == setFieldValue(fd, b, SerialNumber, cur)
    IN  IF g.err # "none"
        THEN [fd |-> fd, bits |-> b, err |-> g.err, msg |-> "", ret |-> 0]
        ELSE IF r.err # "none"
        THEN [fd |-> r.fd, bits |-> r.bits, err |-> r.err, msg |-> "", ret |-> 0]
        ELSE [fd |-> r.fd, bits |-> r.bits, err |-> "none", msg |-> "", ret |-> cur]

\* increment: the dictionary and cache it leaves, how it ended, what it returned
increment(fd, b, count) ==
    LET g == getFieldValue(fd, SerialNumber)
        cur == g.value + count
        r == setFieldValue(fd, b, SerialNumber, cur)
    IN  IF g.err # "none"
        THEN [fd |-> fd, bits |-> b, err |-> g.err, msg |-> "", ret |-> 0]
        ELSE IF r.err # "none"
        THEN [fd |-> r.fd, bits |-> r.bits, err |-> r.err, msg |-> "", ret |-> 0]
        ELSE [fd |-> r.fd, bits |-> r.bits, err |-> "none", msg |-> "", ret |-> cur]

decrement(fd, b, count) ==
    LET g == getFieldValue(fd, SerialNumber)
        cur == g.value - count
        r == setFieldValue(fd, b, SerialNumber, cur)
    IN  IF g.err # "none"
        THEN [fd |-> fd, bits |-> b, err |-> g.err, msg |-> "", ret |-> 0]
        ELSE IF cur < 0
        THEN [fd |-> fd, bits |-> b, err |-> "FieldValueException",
              msg |-> "Serial number field may not be below 0.", ret |-> 0]
        ELSE IF r.err # "none"
        THEN [fd |-> r.fd, bits |-> r.bits, err |-> r.err, msg |-> "", ret |-> 0]
        ELSE [fd |-> r.fd, bits |-> r.bits, err |-> "none", msg |-> "", ret |-> cur]

-----------------------------------------------------------------------------
(* The renderings.                                                         *)

\* toHex: int() of an absent cache is a TypeError
toHex(b) ==
    IF b = None
    THEN [err |-> "TypeError", ret |-> None]
    ELSE LET h == hex(int(b, 2))
         IN  [err |-> "none", ret |-> Upper(SubSeq(h, 3, Len(h)))]

toBinary(b) == [err |-> "none", ret |-> b]

\* the structured dictionary: the encoding type, then every field and its value
toDictionary(fd) ==
    [err |-> "none",
     ret |-> <<"encodingType">> \o encoding_type \o
             Concat([i \in 1..Len(Layout) |->
                        IF Layout[i] \in DOMAIN fd
                        THEN Layout[i] \o <<"=", str(fd[Layout[i]])>>
                        ELSE <<>>])]

toJSON(fd) == [err |-> "none", ret |-> <<"json">> \o toDictionary(fd).ret]

toXml(fd) == [err |-> "none", ret |-> <<"xml">> \o toDictionary(fd).ret]

toTagURI(fd) ==
    IF ~Loaded(fd)
    THEN [err |-> "UnknownFieldError", ret |-> None]
    ELSE [err |-> "none",
          ret |-> <<"urn:epc:tag:">> \o encoding_type \o
                  <<":", str(fd[companyPrefix]), ".", str(fd[SerialNumber])>>]

toGS1(fd) ==
    IF ~Loaded(fd)
    THEN [err |-> "UnknownFieldError", ret |-> None]
    ELSE [err |-> "none",
          ret |-> <<"(01)", str(fd[companyPrefix]), "(21)", str(fd[SerialNumber])>>]

\* self.toEPCTagUri(): no such attribute on the class or among the operations
\* a scheme supplies
toEPCTagUri(fd) == [err |-> "AttributeError", ret |-> None]

K_hex == <<"h","e","x">>
K_xml == <<"x","m","l">>
K_json == <<"j","s","o","n">>
K_dict == <<"d","i","c","t">>
K_dictionary == <<"d","i","c","t","i","o","n","a","r","y">>
K_binary == <<"b","i","n","a","r","y">>
K_bin == <<"b","i","n">>
K_tag == <<"t","a","g">>
K_epctag == <<"e","p","c","t","a","g">>
K_epctaguri == <<"e","p","c","t","a","g","u","r","i">>
K_gs1 == <<"g","s","1">>

\* format: the dispatch on the lower-cased key; no branch taken returns None
format(fd, b, key) ==
    LET f == Lower(key)
    IN  IF f = K_hex THEN toHex(b)
        ELSE IF f = K_xml THEN toXml(fd)
        ELSE IF f = K_json THEN toJSON(fd)
        ELSE IF f = K_dict THEN toDictionary(fd)
        ELSE IF f = K_dictionary THEN toDictionary(fd)
        ELSE IF f = K_binary THEN toBinary(b)
        ELSE IF f = K_bin THEN toBinary(b)
        ELSE IF f = K_tag THEN toEPCTagUri(fd)
        ELSE IF f = K_epctag THEN toEPCTagUri(fd)
        ELSE IF f = K_epctaguri THEN toEPCTagUri(fd)
        ELSE IF f = K_gs1 THEN toGS1(fd)
        ELSE [err |-> "none", ret |-> None]

\* str.format with positional slots: a slot past the arguments is an IndexError
strFormat(literals, slots, values) ==
    IF \E i \in 1..Len(slots) : slots[i] >= Len(values)
    THEN [err |-> "IndexError", ret |-> None]
    ELSE [err |-> "none",
          ret |-> Concat([i \in 1..Len(slots) |-> <<literals[i]>> \o values[slots[i] + 1]])]

\* how a Field object and the args tuple print
FieldRepr(fieldName) == <<"<Field ">> \o fieldName \o <<">">>
TupleRepr(args) == <<"(">> \o args \o <<")">>

\* toIDPAT: four slots {0}..{3} filled from three arguments
toIDPAT(fd, args) ==
    LET f == getField(fd, companyPrefix)
    IN  IF f.err # "none"
        THEN [err |-> f.err, ret |-> None]
        ELSE strFormat(<<"urn:epc:idpat:", ":", ".", ".">>, <<0, 1, 2, 3>>,
                       <<encoding_type, FieldRepr(companyPrefix), TupleRepr(args)>>)

-----------------------------------------------------------------------------
(* Decoding.                                                               *)

\* decodeFromBinary of a concrete scheme: a canonical bit string is split into
\* the fields and kept as the cache; anything else is refused
decodeFromBinary(fd, b, binary) ==
    IF IsBitString(binary)
    THEN [fd |-> Split(binary), bits |-> binary, err |-> "none"]
    ELSE [fd |-> fd, bits |-> b, err |-> "ValueError"]

\* decodeFromHex: what it hands to decodeFromBinary, and what that leaves
decodeFromHex(fd, b, hex_val) ==
    LET handed == bin(int(hex_val, 16))
        r == decodeFromBinary(fd, b, handed)
    IN  [fd |-> r.fd, bits |-> r.bits, err |-> r.err, handed |-> handed]

fromHex(fd, b, hex_val) == decodeFromHex(fd, b, hex_val)

-----------------------------------------------------------------------------
(* The inputs the calls are tried with.                                    *)

UnknownName == <<"B","o","g","u","s">>

FieldNameInputs == {SerialNumber, Lower(SerialNumber), companyPrefix, UnknownName}

\* one value below and one value above the serial number's range
ValInputs == (0 - 1)..Pow2(SerialBits)

CountInputs == (0 - MaxCount)..MaxCount

Capitalize(s) == [i \in 1..Len(s) |-> IF i = 1 THEN UpperChar(s[i]) ELSE s[i]]

RecognizedKeys ==
    {K_hex, K_xml, K_json, K_dict, K_dictionary, K_binary, K_bin,
     K_tag, K_epctag, K_epctaguri, K_gs1}

UnrecognizedKeys == {<<"y","a","m","l">>, <<"H","E","X","X">>, <<>>}

FormatKeys ==
    RecognizedKeys \cup {Upper(k) : k \in RecognizedKeys}
                   \cup {Capitalize(K_hex), Capitalize(K_tag)}
                   \cup UnrecognizedKeys

IdpatArgs == {<<>>, <<"*">>, <<"*", "*">>}

\* hex strings a caller may hold: a few fixed ones and the one toHex just returned
HexInputs ==
    {<<"0">>, <<"1">>, <<"f">>, Upper(Digits(Pow2(TotalBits) - 1, 16))}
        \cup (IF last.op = "toHex" /\ last.err = "none" THEN {last.ret} ELSE {})

\* bit strings a caller may hold: canonical ones and one that is not
BinaryInputs ==
    {FieldBits(n, TotalBits) : n \in {0, Pow2(SerialBits), Pow2(TotalBits) - 1}}
        \cup {bin(1)}

-----------------------------------------------------------------------------
(* The state machine: one action per public call.                          *)

Call(op, arg, val, err, msg, ret, retInt, pre, chain) ==
    [op |-> op, arg |-> arg, val |-> val, err |-> err, msg |-> msg,
     ret |-> ret, retInt |-> retInt, pre |-> pre, chain |-> chain]

\* the serial number a call finds (0 on a dictionary without the field)
SerialOf(fd) == IF SerialNumber \in DOMAIN fd THEN fd[SerialNumber] ELSE 0

\* __init__: an empty dictionary and no cached bit string
Init ==
    /\ fieldDictionary = EmptyDictionary
    /\ bits = None
    /\ last = Call("init", <<>>, 0, "none", "", <<>>, 0, 0, "")

\* loadFields of a concrete scheme: inserts the scheme's fields; on a loaded
\* dictionary the first insert is a duplicate
LoadFields ==
    /\ fieldDictionary' = IF Loaded(fieldDictionary) THEN fieldDictionary ELSE LoadedDictionary
    /\ UNCHANGED bits
    /\ last' = Call("loadFields", <<>>, 0,
                    IF Loaded(fieldDictionary) THEN "DuplicateFieldError" ELSE "none",
                    "", <<>>, 0, 0, "")

SetFieldValue(fieldName, val) ==
    LET r == setFieldValue(fieldDictionary, bits, fieldName, val)
    IN  /\ fieldDictionary' = r.fd
        /\ bits' = r.bits
        /\ last' = Call("setFieldValue", fieldName, val, r.err, "", <<>>, 0, 0, "")

GetFieldValue(fieldName) ==
    LET r == getFieldValue(fieldDictionary, fieldName)
    IN  /\ UNCHANGED <<fieldDictionary, bits>>
        /\ last' = Call("getFieldValue", fieldName, 0, r.err, "", <<>>, r.value, 0, "")

GetField(fieldName) ==
    LET r == getField(fieldDictionary, fieldName)
    IN  /\ UNCHANGED <<fieldDictionary, bits>>
        /\ last' = Call("getField", fieldName, 0, r.err, "",
                        IF r.err = "none" THEN FieldRepr(fieldName) ELSE <<>>, 0, 0, "")

Increment(count) ==
    LET r == increment(fieldDictionary, bits, count)
    IN  /\ fieldDictionary' = r.fd
        /\ bits' = r.bits
        /\ last' = Call("increment", <<>>, count, r.err, r.msg, <<>>, r.ret,
                        SerialOf(fieldDictionary), "")

\* a decrement that directly follows increment by the same count remembers the
\* serial number the increment found, and whether the increment succeeded
Decrement(count) ==
    LET r == decrement(fieldDictionary, bits, count)
        chain == IF last.op = "increment" /\ last.val = count
                 THEN (IF last.err = "none" THEN "incOk" ELSE "incFailed")
                 ELSE ""
    IN  /\ fieldDictionary' = r.fd
        /\ bits' = r.bits
        /\ last' = Call("decrement", <<>>, count, r.err, r.msg, <<>>, r.ret,
                        IF chain # "" THEN last.pre ELSE SerialOf(fieldDictionary),
                        chain)

ToHex ==
    LET r == toHex(bits)
    IN  /\ UNCHANGED <<fieldDictionary, bits>>
        /\ last' = Call("toHex", <<>>, 0, r.err, "", r.ret, 0, 0, "")

ToBinary ==
    LET r == toBinary(bits)
    IN  /\ UNCHANGED <<fieldDictionary, bits>>
        /\ last' = Call("toBinary", <<>>, 0, r.err, "", r.ret, 0, 0, "")

Format(key) ==
    LET r == format(fieldDictionary, bits, key)
    IN  /\ UNCHANGED <<fieldDictionary, bits>>
        /\ last' = Call("format", key, 0, r.err, "", r.ret, 0, 0, "")

ToIDPAT(args) ==
    LET r == toIDPAT(fieldDictionary, args)
    IN  /\ UNCHANGED <<fieldDictionary, bits>>
        /\ last' = Call("toIDPAT", args, 0, r.err, "", r.ret, 0, 0, "")

\* the call records the hex string given and the string handed to decodeFromBinary
DecodeFromHex(hex_val) ==
    LET r == decodeFromHex(fieldDictionary, bits, hex_val)
    IN  /\ fieldDictionary' = r.fd
        /\ bits' = r.bits
        /\ last' = Call("decodeFromHex", hex_val, 0, r.err, "", r.handed, 0, 0,
                        "")

FromHex(hex_val) ==
    LET r == fromHex(fieldDictionary, bits, hex_val)
    IN  /\ fieldDictionary' = r.fd
        /\ bits' = r.bits
        /\ last' = Call("fromHex", hex_val, 0, r.err, "", r.handed, 0, 0,
                        "")

DecodeFromBinary(binary) ==
    LET r == decodeFromBinary(fieldDictionary, bits, binary)
    IN  /\ fieldDictionary' = r.fd
        /\ bits' = r.bits
        /\ last' = Call("decodeFromBinary", binary, 0, r.err, "", <<>>, 0, 0, "")

Next ==
    \/ LoadFields
    \/ \E fieldName \in FieldNameInputs, val \in ValInputs : SetFieldValue(fieldName, val)
    \/ \E fieldName \in FieldNameInputs : GetFieldValue(fieldName)
    \/ \E fieldName \in FieldNameInputs : GetField(fieldName)
    \/ \E count \in CountInputs : Increment(count)
    \/ \E count \in CountInputs : Decrement(count)
    \/ ToHex
    \/ ToBinary
    \/ \E key \in FormatKeys : Format(key)
    \/ \E args \in IdpatArgs : ToIDPAT(args)
    \/ \E hex_val \in HexInputs : DecodeFromHex(hex_val)
    \/ \E hex_val \in HexInputs : FromHex(hex_val)
    \/ \E binary \in BinaryInputs : DecodeFromBinary(binary)

Spec == Init /\ [][Next]_vars

-----------------------------------------------------------------------------
(* The properties.                                                         *)

MutatorOps == {"setFieldValue", "increment", "decrement"}

AccessorOps == {"getFieldValue", "getField"} \cup MutatorOps

\* C1: toHex of the bit string b and then decodeFromHex (or fromHex) of the
\* result hands decodeFromBinary exactly b.
C1_HexRoundTrip ==
    [][(/\ last.op = "toHex" /\ last.err = "none"
        /\ last'.op \in {"decodeFromHex", "fromHex"}
        /\ last'.arg = last.ret)
       => last'.ret = bits]_vars

C3_DecrementBelowZero ==
    [][(/\ last'.op = "decrement"
        /\ Loaded(fieldDictionary)
        /\ fieldDictionary[SerialNumber] - last'.val < 0)
       => (/\ last'.err = "FieldValueException"
           /\ last'.msg = "Serial number field may not be below 0."
           /\ fieldDictionary' = fieldDictionary
           /\ bits' = bits)]_vars

\* decrement() by the default count on serial 0, on a synthesized instance
C3_Witness ==
    /\ Loaded(fieldDictionary)
    /\ last.op = "decrement" /\ last.val = 1
    /\ last.err = "FieldValueException"
    /\ fieldDictionary[SerialNumber] = 0
    /\ bits # None

RenderingOf(k) ==
    IF k = K_hex THEN toHex(bits).ret
    ELSE IF k = K_xml THEN toXml(fieldDictionary).ret
    ELSE IF k = K_json THEN toJSON(fieldDictionary).ret
    ELSE IF k \in {K_dict, K_dictionary} THEN toDictionary(fieldDictionary).ret
    ELSE IF k \in {K_binary, K_bin} THEN toBinary(bits).ret
    ELSE IF k \in {K_tag, K_epctag, K_epctaguri} THEN toTagURI(fieldDictionary).ret
    ELSE toGS1(fieldDictionary).ret

\* C6: format with a recognized key in any letter case returns the rendering
\* the key stands for, the same for every alias and every case variant.
C6_FormatDispatch ==
    (/\ last.op = "format"
     /\ Loaded(fieldDictionary) /\ bits # None
     /\ Lower(last.arg) \in RecognizedKeys)
        => (last.err = "none" /\ last.ret = RenderingOf(Lower(last.arg)))

\* C7: format with a key outside the recognized set ends in an
\* UnsupportedFormat failure.
C7_UnsupportedFormat ==
    (last.op = "format" /\ Lower(last.arg) \notin RecognizedKeys)
        => last.err = "UnsupportedFormat"

\* C8: toIDPAT(a1, ..., an) on a loaded instance completes and returns
\* "urn:epc:idpat:" + type + ":" + companyPrefix, then "." + ai for each i.
C8_IdpatPattern ==
    (last.op = "toIDPAT" /\ Loaded(fieldDictionary))
        => (/\ last.err = "none"
            /\ last.ret = <<"urn:epc:idpat:">> \o encoding_type \o
                          <<":", str(fieldDictionary[companyPrefix])>> \o
                          Concat([i \in 1..Len(last.arg) |-> <<".", last.arg[i]>>]))

\* C9: an accessor or mutator called before loadFields fails with
\* UninitializedSchemeError.
C9_UninitializedSchemeError ==
    (~Loaded(fieldDictionary) /\ last.op \in AccessorOps)
        => last.err = "UninitializedSchemeError"

\* the field a setFieldValue name designates
TargetField(fieldName) ==
    IF Lower(fieldName) = Lower(SerialNumber) THEN SerialNumber ELSE fieldName

====
